---- MODULE Spec2Model ----
(***************************************************************************)
(* Pet dashboard: the in-memory store (lib/store), the /api/pet route      *)
(* (GET, POST) and the /api/status route (GET).                            *)
(*                                                                         *)
(* Time is counted in whole hours since 2026-01-01T00:00Z.  A Date is the  *)
(* hour count; an ISO string (toISOString) is the record of its UTC month, *)
(* day of month and hour; getDate() is the local day of the month.         *)
(*                                                                         *)
(* A handler runs without interruption except at an await: POST is two     *)
(* steps, before and after `await req.json()`; the GET handlers are one.   *)
(* The responses are the operators GETPetResponse, GETStatusResponse and   *)
(* POSTResponse; they are no part of the state.                            *)
(***************************************************************************)
EXTENDS Integers, Sequences, FiniteSets, TLC

VARIABLES
    pets,             \* store: animal name -> pet object
    ultimoReset,      \* store: day of month of the last reset
    now,              \* the wall clock, in hours
    inflight,         \* POST calls suspended at `await req.json()`
    lastReconcileDay, \* history: local calendar day of the previous verificarReset
    reconciled,       \* history: what the previous verificarReset did
    feeds,            \* history: "comida" actions applied per animal since its counter was reset
    medicated,        \* history: a "remedio" action was applied to the animal since the last reset pass
    ignored           \* history, kept under SpecKinds: the last apply step had no branch for its tipo

vars == <<pets, ultimoReset, now, inflight,
          lastReconcileDay, reconciled, feeds, medicated, ignored>>

-----------------------------------------------------------------------------
(* Bounds of the model *)

\* POST calls that may be suspended at their await at the same time
MaxInFlight == 2
\* notes kept in the store
MaxNotes == 2
\* offset of the server's local time zone from UTC, in hours
TzOffsetHours == 0

(* Program constants *)
HoursPerDay == 24
FoodAlertHours == 8
MedAlertHours == 12

-----------------------------------------------------------------------------
(* Values *)

\* JavaScript null
Null == [null |-> TRUE]

\* pets["__proto__"]: Object.prototype, an object with none of a pet's fields
ObjectPrototype == [prototype |-> TRUE]
\* pets["constructor"], pets["toString"], ...: a function Object.prototype holds
InheritedFunction(name) == [function |-> name]
\* pets[animal] for a key the object neither has nor inherits
Undefined == [undefined |-> TRUE]

Min(a, b) == IF a < b THEN a ELSE b

\* obj.f = v
SetField(obj, f, v) == [x \in DOMAIN obj \cup {f} |-> IF x = f THEN v ELSE obj[x]]

\* obj.f used as a condition: a missing field is undefined, which is falsy
Has(obj, f) == f \in DOMAIN obj

-----------------------------------------------------------------------------
(* Calendar: Date, getDate, toISOString, Date.parse, toLocaleString *)

MonthLengths == <<31, 28, 31, 30, 31, 30, 31, 31, 30, 31, 30, 31>>

RECURSIVE DaysBeforeMonth(_)
DaysBeforeMonth(m) == IF m = 1 THEN 0 ELSE DaysBeforeMonth(m - 1) + MonthLengths[m - 1]

\* day number of the first day of each month
FirstDayOfMonth == [m \in 1..12 |-> DaysBeforeMonth(m)]

\* month (1..12) of day number d (0 = January 1st)
MonthOfDay(d) == CHOOSE m \in 1..12 :
                    FirstDayOfMonth[m] <= d /\ d < FirstDayOfMonth[m] + MonthLengths[m]

\* day of the month (1..31) of day number d
DayOfMonth(d) == d - FirstDayOfMonth[MonthOfDay(d)] + 1

\* local calendar day number of instant t
LocalDay(t) == (t + TzOffsetHours) \div HoursPerDay

\* new Date(t).getDate()
getDate(t) == DayOfMonth(LocalDay(t))

\* new Date(t).toISOString()
toISOString(t) ==
    [month |-> MonthOfDay(t \div HoursPerDay),
     day   |-> DayOfMonth(t \div HoursPerDay),
     hour  |-> t % HoursPerDay]

\* new Date(iso), as a number
parseISO(iso) == (FirstDayOfMonth[iso.month] + iso.day - 1) * HoursPerDay + iso.hour

\* new Date(t).toLocaleString("pt-BR")
toLocaleString(t) ==
    [dia  |-> DayOfMonth(LocalDay(t)),
     mes  |-> MonthOfDay(LocalDay(t)),
     hora |-> (t + TzOffsetHours) % HoursPerDay]

-----------------------------------------------------------------------------
(* The store *)

\* the keys of `pets`
Animals == {"tutu", "noah"}

\* let pets = {...}
InitialPets ==
    [tutu |-> [dataNascimento |-> "2025-03-17", especie |-> "Gato", genero |-> "Macho",
               raca |-> "Vira-lata", peso |-> "3,4 kg", cor |-> "Branco e laranja",
               comida |-> 0, ultimoHorarioComida |-> Null, maxComida |-> 3,
               temRemedio |-> TRUE, remedio |-> 0, ultimoHorarioRemedio |-> Null,
               maxRemedio |-> 2,
               alertaSaude |-> FALSE, notas |-> <<>>],
     noah |-> [dataNascimento |-> "2019-07-22", especie |-> "Cachorro", genero |-> "Macho",
               raca |-> "Vira-lata", peso |-> "28 kg", cor |-> "Branco",
               comida |-> 0, ultimoHorarioComida |-> Null, maxComida |-> 3,
               temRemedio |-> FALSE,
               notas |-> <<>>]]

\* pets[animal]: an own key, a key inherited from Object.prototype, or undefined
IsOwnKey(animal) == animal \in Animals
ObjectPrototypeKeys ==
    {"__proto__", "constructor", "toString", "toLocaleString", "valueOf",
     "hasOwnProperty", "isPrototypeOf", "propertyIsEnumerable",
     "__defineGetter__", "__defineSetter__", "__lookupGetter__", "__lookupSetter__"}
IsInheritedKey(animal) == animal \in ObjectPrototypeKeys
\* every inherited key but __proto__ names a function
IsInheritedFunction(animal) == IsInheritedKey(animal) /\ animal # "__proto__"
Lookup(ps, animal) ==
    IF IsOwnKey(animal) THEN ps[animal]
    ELSE IF IsInheritedFunction(animal) THEN InheritedFunction(animal)
    ELSE IF IsInheritedKey(animal) THEN ObjectPrototype
    ELSE Undefined
\* !pets[animal] is false
Truthy(animal) == IsOwnKey(animal) \/ IsInheritedKey(animal)

\* ResetPet that forgets to clear the time of the last meal
ResetPetKeepsTime(pet) ==
    LET fed == SetField(pet, "comida", 0)
    IN  IF Has(pet, "temRemedio") /\ pet.temRemedio
        THEN SetField(SetField(fed, "remedio", 0), "ultimoHorarioRemedio", Null)
        ELSE fed

\* the body of the forEach of verificarReset, for one pet
ResetPet(pet) ==
    LET fed == SetField(SetField(pet, "comida", 0), "ultimoHorarioComida", Null)
    IN  IF Has(pet, "temRemedio") /\ pet.temRemedio
        THEN SetField(SetField(fed, "remedio", 0), "ultimoHorarioRemedio", Null)
        ELSE fed

\* the forEach of verificarReset
ResetAll(ps) == [a \in DOMAIN ps |-> ResetPet(ps[a])]

\* DayChanged that finds every call to be on a new day
DayChangedAlways(hoje, ultimo) == TRUE

\* hoje !== ultimoReset
DayChanged(hoje, ultimo) == hoje # ultimo

\* the store as it is, or as the reset pass of verificarReset leaves it
ReconciledStore == IF DayChanged(getDate(now), ultimoReset) THEN ResetAll(pets) ELSE pets

\* verificarReset() and then the rest of a handler that yields nowhere and
\* leaves the store as `store`; with the history of what verificarReset did
verificarResetThen(store) ==
    LET hoje == getDate(now)
    IN  /\ IF DayChanged(hoje, ultimoReset)
           THEN /\ pets' = store
                /\ ultimoReset' = hoje
                /\ feeds' = [a \in Animals |-> 0]
                /\ medicated' = [a \in Animals |-> FALSE]
                /\ reconciled' = "reset"
           ELSE /\ pets' = store
                /\ UNCHANGED <<ultimoReset, feeds, medicated>>
                /\ reconciled' = IF LocalDay(now) = lastReconcileDay
                                 THEN "sameDay" ELSE "staleDay"
        /\ lastReconcileDay' = LocalDay(now)

\* verificarReset() alone
verificarReset == verificarResetThen(ReconciledStore)

\* (agora - new Date(iso)) / 1000 / 60 / 60
HoursSince(agora, iso) == agora - parseISO(iso)

\* calcularStatus that looks at the meals before the health alert
calcularStatusFoodFirst(pet, agora) ==
    IF /\ Has(pet, "ultimoHorarioComida") /\ pet.ultimoHorarioComida # Null
       /\ HoursSince(agora, pet.ultimoHorarioComida) >= FoodAlertHours
    THEN [tipo |-> "comida", mensagem |-> "Alerta de comida"]
    ELSE IF Has(pet, "alertaSaude") /\ pet.alertaSaude
    THEN [tipo |-> "saude", mensagem |-> "Alerta de saude"]
    ELSE IF /\ Has(pet, "temRemedio") /\ pet.temRemedio
            /\ Has(pet, "ultimoHorarioRemedio") /\ pet.ultimoHorarioRemedio # Null
            /\ HoursSince(agora, pet.ultimoHorarioRemedio) >= MedAlertHours
    THEN [tipo |-> "remedio", mensagem |-> "Alerta de remedio"]
    ELSE [tipo |-> "ok", mensagem |-> "Tudo certo"]

\* calcularStatus with > for >= at both thresholds
calcularStatusStrict(pet, agora) ==
    IF Has(pet, "alertaSaude") /\ pet.alertaSaude
    THEN [tipo |-> "saude", mensagem |-> "Alerta de saude"]
    ELSE IF /\ Has(pet, "ultimoHorarioComida") /\ pet.ultimoHorarioComida # Null
            /\ HoursSince(agora, pet.ultimoHorarioComida) > FoodAlertHours
    THEN [tipo |-> "comida", mensagem |-> "Alerta de comida"]
    ELSE IF /\ Has(pet, "temRemedio") /\ pet.temRemedio
            /\ Has(pet, "ultimoHorarioRemedio") /\ pet.ultimoHorarioRemedio # Null
            /\ HoursSince(agora, pet.ultimoHorarioRemedio) > MedAlertHours
    THEN [tipo |-> "remedio", mensagem |-> "Alerta de remedio"]
    ELSE [tipo |-> "ok", mensagem |-> "Tudo certo"]

\* calcularStatus that takes a pet never fed for one overdue
calcularStatusNeverFedOverdue(pet, agora) ==
    IF Has(pet, "alertaSaude") /\ pet.alertaSaude
    THEN [tipo |-> "saude", mensagem |-> "Alerta de saude"]
    ELSE IF \/ ~Has(pet, "ultimoHorarioComida")
            \/ pet.ultimoHorarioComida = Null
            \/ HoursSince(agora, pet.ultimoHorarioComida) >= FoodAlertHours
    THEN [tipo |-> "comida", mensagem |-> "Alerta de comida"]
    ELSE IF /\ Has(pet, "temRemedio") /\ pet.temRemedio
            /\ Has(pet, "ultimoHorarioRemedio") /\ pet.ultimoHorarioRemedio # Null
            /\ HoursSince(agora, pet.ultimoHorarioRemedio) >= MedAlertHours
    THEN [tipo |-> "remedio", mensagem |-> "Alerta de remedio"]
    ELSE [tipo |-> "ok", mensagem |-> "Tudo certo"]

\* calcularStatus(pet), with agora = new Date()
calcularStatus(pet, agora) ==
    IF Has(pet, "alertaSaude") /\ pet.alertaSaude
    THEN [tipo |-> "saude", mensagem |-> "Alerta de saude"]
    ELSE IF /\ Has(pet, "ultimoHorarioComida") /\ pet.ultimoHorarioComida # Null
            /\ HoursSince(agora, pet.ultimoHorarioComida) >= FoodAlertHours
    THEN [tipo |-> "comida", mensagem |-> "Alerta de comida"]
    ELSE IF /\ Has(pet, "temRemedio") /\ pet.temRemedio
            /\ Has(pet, "ultimoHorarioRemedio") /\ pet.ultimoHorarioRemedio # Null
            /\ HoursSince(agora, pet.ultimoHorarioRemedio) >= MedAlertHours
    THEN [tipo |-> "remedio", mensagem |-> "Alerta de remedio"]
    ELSE [tipo |-> "ok", mensagem |-> "Tudo certo"]

\* calcularStatus whose report of a health alert takes the alert off the pet
calcularStatusCallConsumesAlert(pet, agora) ==
    [retorno |-> calcularStatus(pet, agora),
     pet |-> IF calcularStatus(pet, agora).tipo = "saude"
             THEN SetField(pet, "alertaSaude", FALSE) ELSE pet]

\* one call of calcularStatus(pet) at clock reading agora: what it returns and
\* the pet object after the call (the function assigns to no field of it)
calcularStatusCall(pet, agora) ==
    [retorno |-> calcularStatus(pet, agora), pet |-> pet]

\* the store after GET /api/status called calcularStatus on every pet of it
StoreAfterStatus(ps, t) == [nome \in DOMAIN ps |-> calcularStatusCall(ps[nome], t).pet]

-----------------------------------------------------------------------------
(* Inputs of the routes *)

\* ?animal= of GET /api/pet, "" for a missing or empty parameter
AnimalInputs == {"tutu", "noah", "rex", "__proto__", "constructor", ""}

\* texts of a note, as sequences of characters
TextInputs == {<<>>, <<" ">>, <<" ", "o", "i", " ">>, <<"o", "i">>, <<"a">>}

\* JSON bodies of POST /api/pet: each of animal, tipo, texto may be missing;
\* a texto comes with tipo "nota" (the page sends texto: null otherwise)
Bodies ==
    LET animals == {[animal |-> a] : a \in {"tutu", "noah", "rex", "__proto__", "constructor"}}
                       \cup {[semAnimal |-> TRUE]}
        tipos   == {[tipo |-> k] : k \in {"comida", "remedio", "banho"}}
                       \cup {[semTipo |-> TRUE]}
        notas   == {[tipo |-> "nota", texto |-> x] : x \in TextInputs}
                       \cup {[tipo |-> "nota"]}
        Join(r, q) == [f \in DOMAIN r \cup DOMAIN q |-> IF f \in DOMAIN r THEN r[f] ELSE q[f]]
    IN  {Join(a, k) : a \in animals, k \in tipos \cup notas}

\* body.animal, body.tipo: a missing field reads as undefined, which equals no string
AnimalOf(body) == IF Has(body, "animal") THEN body.animal ELSE "undefined"
TipoOf(body) == IF Has(body, "tipo") THEN body.tipo ELSE "undefined"

\* String.prototype.trim on a sequence of characters
RECURSIVE TrimLeft(_)
TrimLeft(x) == IF x # <<>> /\ Head(x) = " " THEN TrimLeft(Tail(x)) ELSE x
RECURSIVE TrimRight(_)
TrimRight(x) == IF x # <<>> /\ x[Len(x)] = " " THEN TrimRight(SubSeq(x, 1, Len(x) - 1)) ELSE x
trim(x) == TrimRight(TrimLeft(x))

\* texto?.trim() is truthy
HasText(body) == Has(body, "texto") /\ trim(body.texto) # <<>>

-----------------------------------------------------------------------------
(* POST /api/pet: the three updates of the pet *)

\* ApplyComida without the cap
ApplyComidaUncapped(pet, agoraISO) ==
    SetField(SetField(pet, "comida", pet.comida + 1), "ultimoHorarioComida", agoraISO)

\* ApplyComida that records the time outside the if
ApplyComidaStampsAlways(pet, agoraISO) ==
    IF Has(pet, "comida") /\ Has(pet, "maxComida") /\ pet.comida < pet.maxComida
    THEN SetField(SetField(pet, "comida", pet.comida + 1), "ultimoHorarioComida", agoraISO)
    ELSE SetField(pet, "ultimoHorarioComida", agoraISO)

\* ApplyComida that increments without recording the time
ApplyComidaNoStamp(pet, agoraISO) ==
    IF Has(pet, "comida") /\ Has(pet, "maxComida") /\ pet.comida < pet.maxComida
    THEN SetField(pet, "comida", pet.comida + 1)
    ELSE pet

\* ApplyComida that tests the cap with <= instead of <
ApplyComidaOffByOne(pet, agoraISO) ==
    IF Has(pet, "comida") /\ Has(pet, "maxComida") /\ pet.comida <= pet.maxComida
    THEN SetField(SetField(pet, "comida", pet.comida + 1), "ultimoHorarioComida", agoraISO)
    ELSE pet

\* tipo === "comida" && pet.comida < pet.maxComida
ApplyComida(pet, agoraISO) ==
    IF Has(pet, "comida") /\ Has(pet, "maxComida") /\ pet.comida < pet.maxComida
    THEN SetField(SetField(pet, "comida", pet.comida + 1), "ultimoHorarioComida", agoraISO)
    ELSE pet

\* ApplyRemedio without the cap
ApplyRemedioUncapped(pet, agoraISO) ==
    IF Has(pet, "temRemedio") /\ pet.temRemedio
    THEN SetField(SetField(pet, "remedio", pet.remedio + 1), "ultimoHorarioRemedio", agoraISO)
    ELSE pet

\* ApplyRemedio without the test of temRemedio
ApplyRemedioUngated(pet, agoraISO) ==
    IF Has(pet, "remedio") /\ pet.remedio >= pet.maxRemedio
    THEN pet
    ELSE SetField(SetField(pet, "remedio", IF Has(pet, "remedio") THEN pet.remedio + 1 ELSE 1),
                  "ultimoHorarioRemedio", agoraISO)

\* tipo === "remedio" && pet.temRemedio
ApplyRemedio(pet, agoraISO) ==
    IF Has(pet, "temRemedio") /\ pet.temRemedio
    THEN IF pet.remedio < pet.maxRemedio
         THEN SetField(SetField(pet, "remedio", pet.remedio + 1),
                       "ultimoHorarioRemedio", agoraISO)
         ELSE pet
    ELSE pet
\* ApplyNota that puts the new note first
ApplyNotaPrepends(pet, body, data) ==
    IF HasText(body)
    THEN SetField(pet, "notas", <<[texto |-> trim(body.texto), data |-> data]>> \o pet.notas)
    ELSE pet

\* tipo === "nota" && texto?.trim(), on a pet that has notas
ApplyNota(pet, body, data) ==
    IF HasText(body)
    THEN SetField(pet, "notas", Append(pet.notas, [texto |-> trim(body.texto), data |-> data]))
    ELSE pet

\* ApplyBody that takes a body of any other tipo for a meal
ApplyBodyElseComida(pet, body, t) ==
    IF TipoOf(body) = "remedio" THEN ApplyRemedio(pet, toISOString(t))
    ELSE IF TipoOf(body) = "nota" THEN ApplyNota(pet, body, toLocaleString(t))
    ELSE ApplyComida(pet, toISOString(t))

\* the three ifs of POST, on the pet the body names
ApplyBody(pet, body, t) ==
    IF TipoOf(body) = "comida" THEN ApplyComida(pet, toISOString(t))
    ELSE IF TipoOf(body) = "remedio" THEN ApplyRemedio(pet, toISOString(t))
    ELSE IF TipoOf(body) = "nota" THEN ApplyNota(pet, body, toLocaleString(t))
    ELSE pet

\* Response.json(value) throws a TypeError: a function is not JSON serializable
NotSerializable(value) == Has(value, "function")

\* pet.notas.push on an object without notas throws a TypeError
PushThrows(body) ==
    /\ IsInheritedKey(AnimalOf(body))
    /\ TipoOf(body) = "nota"
    /\ HasText(body)

\* POST throws: at the push, or at Response.json(pet) when pet is a function
Throws(body) ==
    \/ PushThrows(body)
    \/ /\ IsInheritedFunction(AnimalOf(body))
       /\ NotSerializable(InheritedFunction(AnimalOf(body)))

-----------------------------------------------------------------------------
(* Responses *)

InvalidAnimal == [status |-> 400, body |-> [error |-> "Animal invalido"]]
InvalidJSON == [status |-> 400, body |-> [error |-> "JSON invalido"]]
ServerError == [status |-> 500, body |-> [error |-> "TypeError"]]
\* Response.json(value)
Ok(value) == [status |-> 200, body |-> value]

\* what GET /api/pet returns from store ps
GETPetResponse(ps, animal) ==
    IF animal = "" \/ ~Truthy(animal)
    THEN InvalidAnimal
    ELSE IF NotSerializable(Lookup(ps, animal)) THEN ServerError
    ELSE Ok(Lookup(ps, animal))

\* what GET /api/status returns from store ps at time t
GETStatusResponse(ps, t) == Ok([nome \in DOMAIN ps |-> calcularStatus(ps[nome], t)])

\* POSTStore that updates every pet when the body names one of them
POSTStoreAll(ps, body, t) ==
    IF IsOwnKey(AnimalOf(body))
    THEN [a \in DOMAIN ps |-> ApplyBody(ps[a], body, t)]
    ELSE ps

\* the store after POST applied body to store ps at time t
POSTStore(ps, body, t) ==
    IF IsOwnKey(AnimalOf(body))
    THEN [ps EXCEPT ![AnimalOf(body)] = ApplyBody(ps[AnimalOf(body)], body, t)]
    ELSE ps

\* what POST returns, ps being the store after the update
POSTResponse(ps, body) ==
    IF ~Truthy(AnimalOf(body)) THEN InvalidAnimal
    ELSE IF Throws(body) THEN ServerError
    ELSE Ok(Lookup(ps, AnimalOf(body)))

-----------------------------------------------------------------------------
(* The clock *)

Instant(day, hour) == day * HoursPerDay + hour

\* the instants the clock takes: three on the day the process starts, then
\* one day, three days and thirty-one days later
ClockInstants ==
    {Instant(0, 2), Instant(0, 9), Instant(0, 23),
     Instant(1, 9), Instant(3, 9), Instant(31, 9)}

StartInstant == Instant(0, 2)

\* the steps by which the clock is set back: across midnight, to the day before
ClockBackSteps == {<<Instant(1, 9), Instant(0, 23)>>}

-----------------------------------------------------------------------------
(* History *)

\* feeds counts up to one past the cap of the pet
CountFeed(n, pet) == Min(n + 1, pet.maxComida + 1)

-----------------------------------------------------------------------------
(* State machine *)

Init ==
    /\ pets = InitialPets
    /\ now = StartInstant
    /\ ultimoReset = getDate(StartInstant)
    /\ inflight = 0
    /\ lastReconcileDay = LocalDay(StartInstant)
    /\ reconciled = "start"
    /\ feeds = [a \in Animals |-> 0]
    /\ medicated = [a \in Animals |-> FALSE]
    /\ ignored = FALSE

\* the wall clock moves: forwards, or back by one of ClockBackSteps
SetClock(t) ==
    /\ t > now \/ <<now, t>> \in ClockBackSteps
    /\ now' = t
    /\ UNCHANGED <<pets, ultimoReset, inflight, ignored,
                   lastReconcileDay, reconciled, feeds, medicated>>

\* GET /api/pet?animal=...; it returns GETPetResponse(pets', animal)
GetPet(animal) ==
    /\ animal \in AnimalInputs
    /\ UNCHANGED <<now, inflight, ignored>>
    /\ verificarReset

\* GET /api/status: verificarReset, then calcularStatus called on every pet of
\* the store; it returns GETStatusResponse(pets', now)
GetStatus ==
    /\ UNCHANGED <<now, inflight, ignored>>
    /\ verificarResetThen(StoreAfterStatus(ReconciledStore, now))

\* POST /api/pet up to `await req.json()`
PostBegin ==
    /\ inflight < MaxInFlight
    /\ inflight' = inflight + 1
    /\ UNCHANGED <<now, ignored>>
    /\ verificarReset

\* POST /api/pet: req.json() rejects; it returns InvalidJSON
PostInvalidJSON ==
    /\ inflight > 0
    /\ inflight' = inflight - 1
    /\ UNCHANGED <<pets, ultimoReset, now, lastReconcileDay, reconciled, feeds, medicated, ignored>>

\* the notes the store holds, over all animals
NotesKept(ps) == Len(ps["tutu"].notas) + Len(ps["noah"].notas)

\* POST /api/pet from `await req.json()` on, with the parsed body; it returns
\* POSTResponse(pets', body)
PostApply(body) ==
    /\ inflight > 0
    /\ inflight' = inflight - 1
    /\ IF Throws(body) THEN pets' = pets ELSE pets' = POSTStore(pets, body, now)
    /\ NotesKept(pets') <= MaxNotes
    /\ feeds' = IF IsOwnKey(AnimalOf(body)) /\ TipoOf(body) = "comida"
                THEN [feeds EXCEPT ![AnimalOf(body)] = CountFeed(@, pets[AnimalOf(body)])]
                ELSE feeds
    /\ medicated' = IF IsOwnKey(AnimalOf(body)) /\ TipoOf(body) = "remedio"
                    THEN [medicated EXCEPT ![AnimalOf(body)] = TRUE]
                    ELSE medicated
    /\ UNCHANGED <<ultimoReset, now, lastReconcileDay, reconciled>>

\* the bodies that append no note
CoreBodies == {body \in Bodies : ~(TipoOf(body) = "nota" /\ HasText(body))}

Next ==
    \/ \E t \in ClockInstants : SetClock(t)
    \/ \E animal \in AnimalInputs : GetPet(animal)
    \/ GetStatus
    \/ PostBegin
    \/ PostInvalidJSON
    \/ \E body \in CoreBodies : PostApply(body) /\ UNCHANGED ignored

Spec == Init /\ [][Next]_vars

\* the routes with every body, notes included, on two consecutive days
NoteInstants == {Instant(0, 2), Instant(1, 9)}

NextNotes ==
    \/ \E t \in NoteInstants : SetClock(t)
    \/ \E animal \in AnimalInputs : GetPet(animal)
    \/ GetStatus
    \/ PostBegin
    \/ PostInvalidJSON
    \/ \E body \in Bodies : PostApply(body) /\ UNCHANGED ignored

SpecNotes == Init /\ [][NextNotes]_vars

\* none of the three ifs of POST takes the body, on a pet of the store
IgnoresTipo(body) ==
    /\ IsOwnKey(AnimalOf(body))
    /\ TipoOf(body) \notin {"comida", "remedio", "nota"}

\* the routes on two consecutive days, an observer noting after each apply
\* step whether POST had a branch for the tipo
NextKinds ==
    \/ \E t \in NoteInstants : SetClock(t)
    \/ \E animal \in AnimalInputs : GetPet(animal)
    \/ GetStatus
    \/ PostBegin
    \/ PostInvalidJSON
    \/ \E body \in CoreBodies : PostApply(body) /\ ignored' = IgnoresTipo(body)

SpecKinds == Init /\ [][NextKinds]_vars

-----------------------------------------------------------------------------
(* calcularStatus on its own: the pets are drawn from every combination of   *)
(* the fields it reads, the clock from instants around the two thresholds    *)

Without(obj, f) == [x \in DOMAIN obj \ {f} |-> obj[x]]

\* a meal or a medication at the start instant, and the clock 7, 8, 11, 12
\* and 13 hours later and on the next day
EvalInstants ==
    {StartInstant, StartInstant + FoodAlertHours - 1, StartInstant + FoodAlertHours,
     StartInstant + MedAlertHours - 1, StartInstant + MedAlertHours,
     StartInstant + MedAlertHours + 1, StartInstant + HoursPerDay}

EvalTimes == {Null, toISOString(StartInstant), toISOString(StartInstant + 1)}

EvalPets ==
    LET base == InitialPets["tutu"]
        fed(t) == IF t = Null THEN base
                  ELSE SetField(SetField(base, "comida", 1), "ultimoHorarioComida", t)
        med(p, t) == IF t = Null THEN p
                     ELSE SetField(SetField(p, "remedio", 1), "ultimoHorarioRemedio", t)
        alerts(p) == {p, SetField(p, "alertaSaude", TRUE), Without(p, "alertaSaude")}
        withMed == {med(fed(tf), tm) : tf \in EvalTimes, tm \in EvalTimes}
        noMed == {SetField(p, "temRemedio", FALSE) : p \in withMed}
    IN  UNION {alerts(p) : p \in withMed \cup noMed}

InitEval ==
    /\ \E p \in EvalPets : pets = [InitialPets EXCEPT !["tutu"] = p]
    /\ now \in EvalInstants
    /\ ultimoReset = getDate(now)
    /\ inflight = 0
    /\ lastReconcileDay = LocalDay(now)
    /\ reconciled = "start"
    /\ feeds = [a \in Animals |-> 0]
    /\ medicated = [a \in Animals |-> FALSE]
    /\ ignored = FALSE

NextEval ==
    \/ \E t \in EvalInstants : SetClock(t)
    \/ GetStatus

SpecEval == InitEval /\ [][NextEval]_vars

-----------------------------------------------------------------------------
(* Properties *)

\* a step of a handler that runs verificarReset
ReconcileStep == (\E animal \in AnimalInputs : GetPet(animal)) \/ GetStatus \/ PostBegin

\* the POST body that feeds animal a
FeedBody(a) == [animal |-> a, tipo |-> "comida"]

\* the counters and times a reset pass clears are cleared in store ps
AllCleared(ps) ==
    \A a \in Animals :
        /\ ps[a].comida = 0
        /\ ps[a].ultimoHorarioComida = Null
        /\ ps[a].temRemedio => ps[a].remedio = 0 /\ ps[a].ultimoHorarioRemedio = Null

\* the medication fields of a pet
MedicationFields(pet) ==
    [f \in DOMAIN pet \cap {"remedio", "ultimoHorarioRemedio", "maxRemedio"} |-> pet[f]]

\* C1: in every reachable state every pet has 0 <= comida <= maxComida
FeedCountWithinCap ==
    \A a \in Animals : 0 <= pets[a].comida /\ pets[a].comida <= pets[a].maxComida

\* C1 witness: a pet is at its cap and one more "comida" was applied to it
FeedCountWithinCapWitness ==
    \E a \in Animals : pets[a].comida = pets[a].maxComida /\ feeds[a] > pets[a].maxComida

\* C2: in every reachable state every pet with temRemedio has 0 <= remedio <= maxRemedio
MedicationCountWithinCap ==
    \A a \in Animals :
        pets[a].temRemedio => 0 <= pets[a].remedio /\ pets[a].remedio <= pets[a].maxRemedio

\* C2 witness: a pet with medication is at its cap
MedicationCountWithinCapWitness ==
    \E a \in Animals :
        pets[a].temRemedio /\ pets[a].remedio = pets[a].maxRemedio /\ medicated[a]

\* C3: a verificarReset on a calendar day other than that of the previous
\* verificarReset, earlier or later by any number of days, leaves the counters
\* and times of every pet cleared
ResetOnEveryDayChange ==
    [][LocalDay(now) # lastReconcileDay /\ ReconcileStep => AllCleared(pets)']_vars

\* C4: a verificarReset k >= 1 calendar days after the previous one performs
\* one reset pass and leaves ultimoReset at the day of the call
OneResetPassAfterDays ==
    [][LocalDay(now) > lastReconcileDay /\ ReconcileStep
         => reconciled' = "reset" /\ ultimoReset' = getDate(now)]_vars

\* C5: a verificarReset on the calendar day of the previous verificarReset
\* changes no pet and not ultimoReset
SameDayReconcileIsNoOp ==
    [][LocalDay(now) = lastReconcileDay /\ ReconcileStep
         => pets' = pets /\ ultimoReset' = ultimoReset]_vars

\* C5 witness: a verificarReset ran on the day of the previous one while a pet had been fed
SameDayReconcileIsNoOpWitness ==
    reconciled = "sameDay" /\ \E a \in Animals : pets[a].comida > 0

\* C6: a "comida" action on a pet below its cap adds one to comida and records
\* the time of the call; comida is the number of "comida" actions applied since
\* the last reset, capped at maxComida
FeedBelowCapIncrements ==
    /\ [][\A a \in Animals :
            pets[a].comida < pets[a].maxComida /\ PostApply(FeedBody(a))
              => /\ pets'[a].comida = pets[a].comida + 1
                 /\ pets'[a].ultimoHorarioComida # Null
                 /\ parseISO(pets'[a].ultimoHorarioComida) = now]_vars
    /\ [](\A a \in Animals : pets[a].comida = Min(pets[a].maxComida, feeds[a]))

\* C6 witness: a pet was fed at the present instant and is below its cap
FeedBelowCapIncrementsWitness ==
    \E a \in Animals :
        /\ 0 < pets[a].comida /\ pets[a].comida < pets[a].maxComida
        /\ feeds[a] = pets[a].comida
        /\ pets[a].ultimoHorarioComida = toISOString(now)

\* C7: a "comida" action on a pet at its cap changes nothing in the store and
\* returns the pet with status 200
FeedAtCapIsNoOp ==
    /\ [][\A a \in Animals :
            pets[a].comida = pets[a].maxComida /\ PostApply(FeedBody(a)) => pets' = pets]_vars
    /\ [](\A a \in Animals :
            pets[a].comida = pets[a].maxComida
              => /\ ~Throws(FeedBody(a))
                 /\ POSTResponse(POSTStore(pets, FeedBody(a), now), FeedBody(a)) = Ok(pets[a]))

\* C7 witness: a "comida" action was applied to a pet at its cap, at a later
\* hour than its last meal
FeedAtCapIsNoOpWitness ==
    \E a \in Animals :
        /\ pets[a].comida = pets[a].maxComida
        /\ feeds[a] > pets[a].maxComida
        /\ parseISO(pets[a].ultimoHorarioComida) < now

\* C8: a pet without medication keeps the medication fields it started with
NoMedicationWithoutTemRemedio ==
    \A a \in Animals :
        ~pets[a].temRemedio => MedicationFields(pets[a]) = MedicationFields(InitialPets[a])

\* C8 witness: a "remedio" action was applied to a pet without medication
NoMedicationWithoutTemRemedioWitness ==
    \E a \in Animals : ~pets[a].temRemedio /\ medicated[a]

\* C9: in every reachable state ultimoHorarioComida is set exactly when comida > 0
FeedTimeIffFed ==
    \A a \in Animals : (pets[a].ultimoHorarioComida # Null) <=> (pets[a].comida > 0)

\* C9 witness: after a reset pass one pet was fed and the other was not
FeedTimeIffFedWitness ==
    /\ reconciled = "reset"
    /\ \E a, b \in Animals : pets[a].comida > 0 /\ pets[b].comida = 0

\* C10: a pet with alertaSaude evaluates to "saude", whatever its times and the clock
HealthAlertFirst ==
    \A a \in Animals :
        (Has(pets[a], "alertaSaude") /\ pets[a].alertaSaude)
            => calcularStatus(pets[a], now).tipo = "saude"

\* C10 witness: a pet with alertaSaude whose last meal and last medication are
\* both past their thresholds
HealthAlertFirstWitness ==
    \E a \in Animals :
        /\ Has(pets[a], "alertaSaude") /\ pets[a].alertaSaude
        /\ pets[a].temRemedio
        /\ pets[a].ultimoHorarioComida # Null
        /\ HoursSince(now, pets[a].ultimoHorarioComida) >= FoodAlertHours
        /\ pets[a].ultimoHorarioRemedio # Null
        /\ HoursSince(now, pets[a].ultimoHorarioRemedio) >= MedAlertHours
        /\ calcularStatus(pets[a], now).tipo = "saude"

\* what the pet says of itself, a missing field reading as false or null
HealthAlert(pet) == Has(pet, "alertaSaude") /\ pet.alertaSaude
HasMedication(pet) == Has(pet, "temRemedio") /\ pet.temRemedio
FeedOverdue(pet, t) ==
    /\ Has(pet, "ultimoHorarioComida") /\ pet.ultimoHorarioComida # Null
    /\ t - parseISO(pet.ultimoHorarioComida) >= FoodAlertHours
MedicationOverdue(pet, t) ==
    /\ Has(pet, "ultimoHorarioRemedio") /\ pet.ultimoHorarioRemedio # Null
    /\ t - parseISO(pet.ultimoHorarioRemedio) >= MedAlertHours

\* the first-match-wins reference: health, food, medication, ok
ReferenceKind(pet, t) ==
    CASE HealthAlert(pet) -> "saude"
      [] ~HealthAlert(pet) /\ FeedOverdue(pet, t) -> "comida"
      [] ~HealthAlert(pet) /\ ~FeedOverdue(pet, t)
           /\ HasMedication(pet) /\ MedicationOverdue(pet, t) -> "remedio"
      [] OTHER -> "ok"

\* C11: calcularStatus gives the kind of the first-match-wins reference, the
\* thresholds of 8 and 12 hours included; food wins over medication, and a pet
\* without medication never evaluates to "remedio"
StatusIsFirstMatch ==
    \A a \in Animals :
        /\ calcularStatus(pets[a], now).tipo = ReferenceKind(pets[a], now)
        /\ FeedOverdue(pets[a], now) /\ MedicationOverdue(pets[a], now) /\ ~HealthAlert(pets[a])
             => calcularStatus(pets[a], now).tipo = "comida"
        /\ ~HasMedication(pets[a]) => calcularStatus(pets[a], now).tipo # "remedio"

\* C11 witness: the last medication is exactly 12 hours old and the last meal
\* 11 hours, both past their thresholds, and the pet evaluates to "comida"
StatusIsFirstMatchWitness ==
    \E a \in Animals :
        /\ ~HealthAlert(pets[a]) /\ HasMedication(pets[a])
        /\ MedicationOverdue(pets[a], now)
        /\ now - parseISO(pets[a].ultimoHorarioRemedio) = MedAlertHours
        /\ FeedOverdue(pets[a], now)
        /\ calcularStatus(pets[a], now).tipo = "comida"

\* C12 as stated: a pet never fed and without health alert evaluates to "ok",
\* whatever its medication fields and the clock
NeverFedIsOk ==
    \A a \in Animals :
        pets[a].ultimoHorarioComida = Null /\ ~HealthAlert(pets[a])
            => calcularStatus(pets[a], now).tipo = "ok"

\* C12 amended: a pet never fed and without health alert never evaluates to
\* "comida": it evaluates to "remedio" when it has medication and its last
\* medication is 12 hours old or more, and to "ok" otherwise
NeverFedIsOkOrMedication ==
    \A a \in Animals :
        pets[a].ultimoHorarioComida = Null /\ ~HealthAlert(pets[a])
            => calcularStatus(pets[a], now).tipo =
                 IF HasMedication(pets[a]) /\ MedicationOverdue(pets[a], now)
                 THEN "remedio" ELSE "ok"

\* C12 witness: a pet never fed whose last medication is overdue, and one never
\* fed that evaluates to "ok"
NeverFedIsOkOrMedicationWitness ==
    /\ \E a \in Animals :
          /\ pets[a].ultimoHorarioComida = Null /\ ~HealthAlert(pets[a])
          /\ calcularStatus(pets[a], now).tipo = "remedio"
    /\ \E a \in Animals :
          /\ pets[a].ultimoHorarioComida = Null /\ ~HealthAlert(pets[a])
          /\ calcularStatus(pets[a], now).tipo = "ok"

\* C13: GET /api/pet and POST /api/pet called with an identifier that is not
\* one of the animals of the store, or with none, answer "Animal invalido", and
\* the POST leaves every record as it was
UnknownAnimalIsNotFound ==
    /\ \A animal \in AnimalInputs \ Animals :
          GETPetResponse(pets, animal) = InvalidAnimal
    /\ \A body \in Bodies :
          AnimalOf(body) \notin Animals
              => /\ POSTStore(pets, body, now) = pets
                 /\ POSTResponse(POSTStore(pets, body, now), body) = InvalidAnimal

\* x holds nothing but whitespace
Blank(x) == \A i \in 1..Len(x) : x[i] = " "

\* y is x without its leading and trailing whitespace
IsTrimOf(x, y) ==
    /\ y # <<>> => y[1] # " " /\ y[Len(y)] # " "
    /\ \E i \in 0..Len(x) : \E j \in i..Len(x) :
          /\ y = SubSeq(x, i + 1, j)
          /\ Blank(SubSeq(x, 1, i)) /\ Blank(SubSeq(x, j + 1, Len(x)))

\* the body asks for a note with some text on animal a
Annotates(body, a) ==
    /\ AnimalOf(body) = a /\ TipoOf(body) = "nota"
    /\ Has(body, "texto") /\ ~Blank(body.texto)

\* before is a prefix of after
IsPrefix(before, after) ==
    /\ Len(before) <= Len(after)
    /\ SubSeq(after, 1, Len(before)) = before

\* the bodies that ask for a note with some text on an animal of the store
AnnotatingBodies == {body \in Bodies : \E a \in Animals : Annotates(body, a)}

\* some animal's notes differ between the two states of the step
NotesChanged == \E a \in Animals : pets'[a].notas # pets[a].notas

\* the notes of animal a in store after are those in store before plus one
\* entry at the end, holding the trimmed text
AppendsNote(before, after, a, texto) ==
    /\ Len(after[a].notas) = Len(before[a].notas) + 1
    /\ IsPrefix(before[a].notas, after[a].notas)
    /\ IsTrimOf(texto, after[a].notas[Len(after[a].notas)].texto)

\* C14: notes are append-only and keep their order over every step, day resets
\* included. In every reachable state the update of a note with non-blank text
\* appends one entry holding the trimmed text at the end of the target's notes
\* and leaves the other animal's notes alone; over every step the old notes
\* are a prefix of the new, only an apply step changes notes, and a step that
\* changes notes is the update of such a body, never the apply step of another
\* body (blank or missing text included)
NotesAppendOnly ==
    /\ [](\A body \in AnnotatingBodies : \A a \in Animals :
             IF Annotates(body, a)
             THEN AppendsNote(pets, POSTStore(pets, body, now), a, body.texto)
             ELSE POSTStore(pets, body, now)[a].notas = pets[a].notas)
    /\ [][/\ \A a \in Animals : IsPrefix(pets[a].notas, pets'[a].notas)
          /\ inflight' >= inflight => ~NotesChanged
          /\ NotesChanged => /\ \E body \in AnnotatingBodies : PostApply(body)
                             /\ \A body \in Bodies \ AnnotatingBodies : ~PostApply(body)]_vars

\* C14 witness: an animal holds two notes of different texts in the order they
\* were written, the first on the first day and the second on the next, and
\* the day reset has run
NotesAppendOnlyWitness ==
    \E a \in Animals :
        /\ Len(pets[a].notas) = 2
        /\ pets[a].notas[1].texto = <<"o", "i">> /\ pets[a].notas[2].texto = <<"a">>
        /\ pets[a].notas[1].data = toLocaleString(Instant(0, 2))
        /\ pets[a].notas[2].data = toLocaleString(Instant(1, 9))
        /\ reconciled = "reset" /\ ultimoReset = getDate(Instant(1, 9))

\* counter f of pet goes from its value in before to its value in after by a
\* reset to zero or by one increment from below the cap
CounterStep(before, after, f, cap) ==
    Has(before, f) =>
        \/ after[f] = before[f]
        \/ after[f] = 0
        \/ before[f] < before[cap] /\ after[f] = before[f] + 1

\* C15: with POST calls suspended at their await and resumed in any order,
\* every step moves each counter by a reset or by one increment from a value
\* read below the cap in the same step, so no counter ever exceeds its cap
CountersMoveAtomically ==
    [][\A a \in Animals :
          /\ CounterStep(pets[a], pets'[a], "comida", "maxComida")
          /\ CounterStep(pets[a], pets'[a], "remedio", "maxRemedio")
          /\ pets'[a].comida <= pets'[a].maxComida
          /\ Has(pets'[a], "remedio") => pets'[a].remedio <= pets'[a].maxRemedio]_vars

\* C15 witness: two feeds of one animal were suspended together after the last
\* reconcile; resumed on the next day, the first took the counter to the cap and
\* the second found it there
CountersMoveAtomicallyWitness ==
    \E a \in Animals :
        /\ inflight = 0
        /\ pets[a].comida = pets[a].maxComida /\ feeds[a] > pets[a].maxComida
        /\ pets[a].ultimoHorarioComida # Null
        /\ LocalDay(parseISO(pets[a].ultimoHorarioComida)) > lastReconcileDay

\* C16: while a POST call is between its reconcile step and its apply step, no
\* reconcile step of another call changes the store or ultimoReset, and no
\* apply step of another call suspended with it changes the store
ReconcileApplyExclusive ==
    [][inflight > 0 =>
          /\ inflight' >= inflight => pets' = pets /\ ultimoReset' = ultimoReset
          /\ inflight > 1 /\ inflight' < inflight => pets' = pets]_vars

\* C17: the apply step of POST changes no record but the one its body names:
\* when the step changes the record of animal a, it is the apply step of no
\* body that names another animal or none
OnlyTargetChanges ==
    [][inflight' < inflight =>
          \A a \in Animals :
              pets'[a] # pets[a] =>
                  \A body \in Bodies : AnimalOf(body) # a => ~PostApply(body)]_vars

\* C17 witness: tutu was fed, medicated and annotated, and noah's record is the
\* one the store started with
OnlyTargetChangesWitness ==
    /\ pets["tutu"].comida > 0 /\ pets["tutu"].remedio > 0
    /\ Len(pets["tutu"].notas) > 0
    /\ reconciled # "reset"
    /\ pets["noah"] = InitialPets["noah"]

\* the bodies that name a pet of the store and a tipo POST has no branch for,
\* a missing tipo included
UnknownKindBodies == {body \in Bodies : IgnoresTipo(body)}

\* C18: POST on an animal of the store with a tipo other than comida, remedio
\* and nota, or with none, is a silent no-op: in every reachable state it
\* throws nothing and answers 200 with the record as it is, and the apply step
\* of such a body changes no field of any record
UnknownKindIsNoOp ==
    /\ [](\A body \in UnknownKindBodies :
             /\ ~Throws(body)
             /\ POSTResponse(POSTStore(pets, body, now), body) = Ok(pets[AnimalOf(body)]))
    /\ [][pets' # pets => \A body \in UnknownKindBodies : ~PostApply(body)]_vars

\* C18 witness: the last apply step had no branch for its tipo, on a store in
\* which an animal has been fed and medicated to its caps
UnknownKindIsNoOpWitness ==
    /\ ignored /\ inflight = 0
    /\ pets["tutu"].comida = pets["tutu"].maxComida
    /\ pets["tutu"].remedio = pets["tutu"].maxRemedio

\* C19: calcularStatus is pure. In every reachable state a call on a pet leaves
\* every field of the pet as it was, and a second call on the same pet at the
\* same clock reading returns the kind the first returned; and a GET
\* /api/status step, which calls it on every pet, leaves the store as its
\* reconcile step made it and ultimoReset as its reconcile step set it
EvaluateIsPure ==
    /\ [](\A a \in Animals :
             LET first == calcularStatusCall(pets[a], now)
             IN  /\ first.pet = pets[a]
                 /\ calcularStatusCall(first.pet, now).retorno.tipo = first.retorno.tipo)
    /\ [][now' = now =>
             /\ pets' = ReconciledStore
             /\ ultimoReset' \in {ultimoReset, getDate(now)}
             /\ \A a \in Animals :
                   calcularStatusCall(pets'[a], now').retorno = calcularStatus(ReconciledStore[a], now)]_vars

\* C19 witness: GET /api/status has run without a reset pass on a pet that it
\* reported for a health alert and that is also overdue for a meal, and the pet
\* still has its alert and the time of its last meal
EvaluateIsPureWitness ==
    /\ reconciled = "sameDay"
    /\ \E a \in Animals :
          /\ calcularStatusCall(pets[a], now).retorno.tipo = "saude"
          /\ HealthAlert(pets[a]) /\ FeedOverdue(pets[a], now)

\* C20: every time of a last meal or last medication the store holds falls on
\* the day stored in ultimoReset, also when the day changes while a POST call
\* is between its reconcile step and its apply step
TimesFallOnResetDay ==
    \A a \in Animals :
        /\ pets[a].ultimoHorarioComida # Null
              => getDate(parseISO(pets[a].ultimoHorarioComida)) = ultimoReset
        /\ Has(pets[a], "ultimoHorarioRemedio") /\ pets[a].ultimoHorarioRemedio # Null
              => getDate(parseISO(pets[a].ultimoHorarioRemedio)) = ultimoReset

\* C21: GET /api/status reconciles before it evaluates, so a meal or medication
\* of an earlier calendar day gives no alert: the kinds it returns are "comida"
\* (or "remedio") only for a pet whose last meal (or last medication) lies on
\* the calendar day of the call, and on the first reconcile of a new calendar
\* day every pet without health alert gets "ok"
StatusAlertsAreOfToday ==
    [][GetStatus =>
          \A a \in Animals :
              LET kind == calcularStatus(pets'[a], now').tipo
              IN  /\ kind = "comida" =>
                        LocalDay(parseISO(pets'[a].ultimoHorarioComida)) = LocalDay(now')
                  /\ kind = "remedio" =>
                        LocalDay(parseISO(pets'[a].ultimoHorarioRemedio)) = LocalDay(now')
                  /\ LocalDay(now) # lastReconcileDay /\ ~HealthAlert(pets'[a])
                        => kind = "ok"]_vars

====
